---- MODULE Spec2Model ----
(***************************************************************************)
(* Region syncer of the placement driver: server/region_syncer/server.go.  *)
(*                                                                         *)
(* Three kinds of task share the state of one RegionSyncer:                *)
(*   - the engine, RunServer, which takes change notifications from the    *)
(*     regionNotifier channel, records them into the history buffer and    *)
(*     broadcasts them (or a keep-alive) to the registered streams;        *)
(*   - one session per inbound connection, Sync, which validates a         *)
(*     request, replays history (syncHistoryRegion) and registers the      *)
(*     connection's stream (bindStream);                                   *)
(*   - the environment: the producer of notifications, the ticker, the     *)
(*     quit signal, the followers' requests and the transport's failures.  *)
(*                                                                         *)
(* The history buffer (newHistoryBuffer, Record, GetNextIndex,             *)
(* RecordsFrom) is used by server.go but defined in a file that is not     *)
(* part of the sources at hand; it is modelled from section 4.1 of the     *)
(* specification.                                                          *)
(***************************************************************************)
EXTENDS Integers, Sequences, FiniteSets, TLC

(***************************************************************************)
(* Program constants.                                                      *)
(***************************************************************************)
maxSyncRegionBatchSize == 100

defaultHistoryBufferSize == 10000

(***************************************************************************)
(* Bounds of the model.                                                    *)
(***************************************************************************)
\* connections (stream handles) that may open a session
NumSessions == 2

\* change notifications the producer sends in the interleaved model
MaxNotify == 2

\* timer ticks the engine takes
MaxTicks == 1

\* requests received over all sessions
MaxRequests == 2

\* largest StartIndex a follower asks for
MaxStart == 1

\* persisted watermark found at startup
MaxWatermark == 1

\* history-buffer model: capacities 1..MaxCapacity, MaxRecords record calls,
\* region identifiers 1..NumRegions, queries 0..MaxQuery
MaxCapacity == 3

MaxRecords == 5

NumRegions == 2

MaxQuery == 7

\* burst model: notifications queued on the channel before the engine runs
MaxQueued == 150

(***************************************************************************)
(* Values.                                                                 *)
(***************************************************************************)
Sessions == 1..NumSessions

Names == {"a", "b"}

\* the coordinator's own cluster identifier, s.server.ClusterID()
ClusterID == 1

\* cluster identifiers a request may carry
ClusterIDs == {1, 2}

\* no stream / no message
None == [none |-> TRUE]

\* a *core.RegionInfo: the region's meta plus the rest of the snapshot
RegionInfo(id) == [meta |-> id, leader |-> 0]

\* RegionInfo.GetMeta()
GetMeta(r) == r.meta

Range(f) == {f[x] : x \in DOMAIN f}

\* s[from..] of a sequence, 1-based, empty when from > Len(s)
Suffix(s, from) == [k \in 1..(Len(s) - from + 1) |-> s[from + k - 1]]

\* the history indices of the records of a message: StartIndex + position
Indices(m) == {m.StartIndex + p : p \in 0..(Len(m.Regions) - 1)}

\* the sequence <<f(s[1]), ..., f(s[n])>> of metas
Metas(s) == [k \in 1..Len(s) |-> GetMeta(s[k])]

(***************************************************************************)
(* History buffer (specification 4.1).                                     *)
(*   size        capacity C                                                *)
(*   startIndex  index of the oldest retained entry                        *)
(*   nextIndex   next index to assign                                      *)
(*   records     retained record bodies, oldest first                      *)
(*   kv          the watermark persisted in the durable store              *)
(***************************************************************************)
newHistoryBuffer(size, watermark) ==
    [size |-> size, startIndex |-> watermark, nextIndex |-> watermark,
     records |-> <<>>, kv |-> watermark]

GetNextIndex(h) == h.nextIndex

\* a mutant of Record: the buffer is full one entry too late
Record_KeepsOneMore(h, r) ==
    LET appended == Append(h.records, r)
        over == Len(appended) > h.size + 1
    IN [h EXCEPT !.records = IF over THEN Tail(appended) ELSE appended,
                 !.startIndex = IF over THEN @ + 1 ELSE @,
                 !.nextIndex = @ + 1,
                 !.kv = h.nextIndex + 1]

\* a mutant of Record: eviction drops the newest retained entry
Record_EvictsNewest(h, r) ==
    LET over == Len(h.records) + 1 > h.size
    IN [h EXCEPT !.records = IF over
                              THEN Append(SubSeq(h.records, 1, Len(h.records) - 1), r)
                              ELSE Append(h.records, r),
                 !.startIndex = IF over THEN @ + 1 ELSE @,
                 !.nextIndex = @ + 1,
                 !.kv = h.nextIndex + 1]

\* record(r): assign nextIndex, append, advance, evict the oldest when the
\* size exceeds the capacity, persist the watermark
Record(h, r) ==
    LET appended == Append(h.records, r)
        over == Len(appended) > h.size
    IN [h EXCEPT !.records = IF over THEN Tail(appended) ELSE appended,
                 !.startIndex = IF over THEN @ + 1 ELSE @,
                 !.nextIndex = @ + 1,
                 !.kv = h.nextIndex + 1]

\* a mutant of RecordsFrom: an index below startIndex returns every entry
RecordsFrom_NoLowerBound(h, index) ==
    IF index < h.nextIndex
    THEN Suffix(h.records, IF index >= h.startIndex THEN index - h.startIndex + 1 ELSE 1)
    ELSE <<>>

\* recordsFrom(idx): the entries with index >= idx, ascending; empty when
\* idx < startIndex and when idx >= nextIndex
RecordsFrom(h, index) ==
    IF index >= h.startIndex /\ index < h.nextIndex
    THEN Suffix(h.records, index - h.startIndex + 1)
    ELSE <<>>

(***************************************************************************)
(* State.                                                                  *)
(***************************************************************************)
VARIABLES
    \* RegionSyncer
    history,      \* s.history
    streams,      \* s.streams: follower name -> stream handle
    rlocked,      \* the engine holds the RWMutex for reading (inside broadcast)
    \* environment
    chan,         \* regionNotifier: queued *core.RegionInfo, oldest first
    produced,     \* notifications the producer has sent
    ticks,        \* timer ticks taken
    quit,         \* the engine has taken the quit signal
    nreq,         \* requests received over all sessions
    \* RunServer / broadcast, the engine task
    epc,          \* "select", "drain", "send", "remove", "exit"; "stuck" in a Send that does not return
    requests,     \* RunServer's requests slice
    startIndex,   \* RunServer's startIndex
    pending,      \* RunServer's pending
    i,            \* RunServer's loop counter
    msg,          \* the message handed to broadcast
    todo,         \* names broadcast's range loop has still to visit
    failed,       \* broadcast's failed slice
    \* Sync, one task per connection
    spc,          \* "recv", "history", "send", "bind", "closed"
    req,          \* the request being served
    records,      \* syncHistoryRegion's records
    err,          \* what Sync returned: "nil", "transport", "FailedPrecondition", "send"; "none" while running
    \* observation
    out,          \* per stream handle: the last message a Send delivered on it
    seen,         \* per stream handle: the history indices of the records delivered on it
    sends,        \* the Send calls of the current (or last) broadcast call
    live,         \* registrations <<name, handle>> made, with no failed send of the handle and not replaced since
    dropped,      \* names a broadcast removed after a failed send, not bound again since
    taken,        \* every notification the engine took from the channel, in order
    recorded,     \* every record handed to Record, in order
    batched,      \* the Regions of every batch message handed to broadcast, concatenated
    bootIndex,    \* the watermark the history buffer started from
    query,        \* history-buffer model: the last RecordsFrom call and its result
    expect,       \* per name: the index after the last broadcast delivered for it, and how many, since it was bound
    superseded    \* registrations <<name, handle>> that bindStream overwrote with another handle, not bound again since

rsVars == <<history, streams, rlocked>>

envVars == <<chan, produced, ticks, quit, nreq>>

engVars == <<epc, requests, startIndex, pending, i, msg, todo, failed>>

sesVars == <<spc, req, records, err>>

obsVars == <<out, seen, sends, live, dropped, taken, recorded, batched, bootIndex, query, expect, superseded>>

vars == <<rsVars, envVars, engVars, sesVars, obsVars>>

\* a request before any was received; recv is what stream.Recv() returned
\* last, inrange whether start lay within [startIndex, nextIndex] when the
\* history was consulted
NoRequest ==
    [cluster |-> ClusterID, name |-> "a", start |-> 0, recv |-> "none",
     consulted |-> FALSE, inrange |-> FALSE, replied |-> 0, bound |-> FALSE]

\* a name that got no broadcast since it was bound
NoBroadcast == [next |-> 0, count |-> 0]

\* NewRegionSyncer: an empty stream table and a history buffer of the given
\* capacity seeded from the persisted watermark
InitWith(size, watermark, queued) ==
    /\ history = newHistoryBuffer(size, watermark)
    /\ streams = <<>>
    /\ rlocked = FALSE
    /\ chan = [k \in 1..queued |-> RegionInfo(k)]
    /\ produced = queued
    /\ ticks = 0
    /\ quit = FALSE
    /\ nreq = 0
    /\ epc = "select"
    /\ requests = <<>>
    /\ startIndex = 0
    /\ pending = 0
    /\ i = 0
    /\ msg = None
    /\ todo = {}
    /\ failed = <<>>
    /\ spc = [s \in Sessions |-> "recv"]
    /\ req = [s \in Sessions |-> NoRequest]
    /\ records = [s \in Sessions |-> <<>>]
    /\ err = [s \in Sessions |-> "none"]
    /\ out = [s \in Sessions |-> None]
    /\ seen = [s \in Sessions |-> {}]
    /\ sends = <<>>
    /\ live = {}
    /\ dropped = {}
    /\ taken = <<>>
    /\ recorded = <<>>
    /\ batched = <<>>
    /\ bootIndex = watermark
    /\ query = None
    /\ expect = [n \in Names |-> NoBroadcast]
    /\ superseded = {}

Init == \E w \in 0..MaxWatermark : InitWith(defaultHistoryBufferSize, w, 0)

(***************************************************************************)
(* Environment.                                                            *)
(***************************************************************************)
\* the producer sends one more changed region on regionNotifier
Notify ==
    /\ produced < MaxNotify
    /\ produced' = produced + 1
    /\ chan' = Append(chan, RegionInfo(produced + 1))
    /\ UNCHANGED <<ticks, quit, nreq>>
    /\ UNCHANGED <<rsVars, engVars, sesVars, obsVars>>

(***************************************************************************)
(* RunServer.                                                              *)
(***************************************************************************)
\* the loop condition of the drain loop, line 100
DrainMore == i < pending /\ i < maxSyncRegionBatchSize

\* a mutant of RunServerFirst: the next index is read after the first record
RunServerFirst_IndexAfterRecord ==
    /\ epc = "select"
    /\ chan # <<>>
    /\ LET first == Head(chan) IN
        /\ requests' = Append(requests, GetMeta(first))
        /\ history' = Record(history, first)
        /\ startIndex' = GetNextIndex(history')
        /\ taken' = Append(taken, first)
        /\ recorded' = Append(recorded, first)
    /\ chan' = Tail(chan)
    /\ pending' = Len(chan')
    /\ i' = 0
    /\ epc' = "drain"
    /\ UNCHANGED <<streams, rlocked, produced, ticks, quit, nreq, msg, todo, failed>>
    /\ UNCHANGED <<sesVars, out, seen, sends, live, dropped, batched, bootIndex, query, expect, superseded>>

\* case first := <-regionNotifier, lines 95-99: take the first notification,
\* read the next index, record it, count what is queued
RunServerFirst ==
    /\ epc = "select"
    /\ chan # <<>>
    /\ LET first == Head(chan) IN
        /\ requests' = Append(requests, GetMeta(first))
        /\ startIndex' = GetNextIndex(history)
        /\ history' = Record(history, first)
        /\ taken' = Append(taken, first)
        /\ recorded' = Append(recorded, first)
    /\ chan' = Tail(chan)
    /\ pending' = Len(chan')
    /\ i' = 0
    /\ epc' = "drain"
    /\ UNCHANGED <<streams, rlocked, produced, ticks, quit, nreq, msg, todo, failed>>
    /\ UNCHANGED <<sesVars, out, seen, sends, live, dropped, batched, bootIndex, query, expect, superseded>>

\* a mutant of RunServerDrain: the drained region is batched but not recorded
RunServerDrain_NoRecord ==
    /\ epc = "drain"
    /\ DrainMore
    /\ LET region == Head(chan) IN
        /\ requests' = Append(requests, GetMeta(region))
        /\ taken' = Append(taken, region)
    /\ chan' = Tail(chan)
    /\ i' = i + 1
    /\ UNCHANGED <<rsVars, produced, ticks, quit, nreq>>
    /\ UNCHANGED <<epc, startIndex, pending, msg, todo, failed>>
    /\ UNCHANGED <<sesVars, out, seen, sends, live, dropped, recorded, batched, bootIndex, query, expect, superseded>>

\* one iteration of the drain loop, lines 100-104
RunServerDrain ==
    /\ epc = "drain"
    /\ DrainMore
    /\ LET region == Head(chan) IN
        /\ requests' = Append(requests, GetMeta(region))
        /\ history' = Record(history, region)
        /\ taken' = Append(taken, region)
        /\ recorded' = Append(recorded, region)
    /\ chan' = Tail(chan)
    /\ i' = i + 1
    /\ UNCHANGED <<streams, rlocked, produced, ticks, quit, nreq>>
    /\ UNCHANGED <<epc, startIndex, pending, msg, todo, failed>>
    /\ UNCHANGED <<sesVars, out, seen, sends, live, dropped, batched, bootIndex, query, expect, superseded>>

\* the call s.broadcast(m), lines 110 and 116, up to the start of the range
\* over s.streams, lines 183-185: s.RLock() is taken
BroadcastCall(m) ==
    /\ msg' = m
    /\ rlocked' = TRUE
    /\ todo' = DOMAIN streams
    /\ failed' = <<>>
    /\ sends' = <<>>
    /\ epc' = "send"

\* broadcast returns and the select case ends: requests is reset, line 118,
\* and the locals of the case and of broadcast go out of scope
BroadcastReturn ==
    /\ epc' = "select"
    /\ requests' = <<>>
    /\ startIndex' = 0
    /\ pending' = 0
    /\ i' = 0
    /\ msg' = None
    /\ failed' = <<>>
    /\ sends' = <<>>

\* a mutant of RunServerBatch: the message carries the next index at the time
\* it is built
RunServerBatch_IndexAtSend ==
    /\ epc = "drain"
    /\ ~DrainMore
    /\ BroadcastCall([ClusterId |-> ClusterID, Regions |-> requests,
                      StartIndex |-> GetNextIndex(history)])
    /\ batched' = batched \o requests
    /\ UNCHANGED <<history, streams, envVars, requests, startIndex, pending, i>>
    /\ UNCHANGED <<sesVars, out, seen, live, dropped, taken, recorded, bootIndex, query, expect, superseded>>

\* the batch message, lines 105-110, handed to broadcast
RunServerBatch ==
    /\ epc = "drain"
    /\ ~DrainMore
    /\ BroadcastCall([ClusterId |-> ClusterID, Regions |-> requests, StartIndex |-> startIndex])
    /\ batched' = batched \o requests
    /\ UNCHANGED <<history, streams, envVars, requests, startIndex, pending, i>>
    /\ UNCHANGED <<sesVars, out, seen, live, dropped, taken, recorded, bootIndex, query, expect, superseded>>

\* a mutant of RunServerAlive: the keep-alive carries the oldest retained index
RunServerAlive_OldestIndex ==
    /\ epc = "select"
    /\ ticks < MaxTicks
    /\ ticks' = ticks + 1
    /\ BroadcastCall([ClusterId |-> ClusterID, Regions |-> <<>>, StartIndex |-> history.startIndex])
    /\ UNCHANGED <<history, streams, chan, produced, quit, nreq>>
    /\ UNCHANGED <<requests, startIndex, pending, i>>
    /\ UNCHANGED <<sesVars, out, seen, live, dropped, taken, recorded, batched, bootIndex, query, expect, superseded>>

\* case <-ticker.C, lines 111-116: the keep-alive message, handed to broadcast
RunServerAlive ==
    /\ epc = "select"
    /\ ticks < MaxTicks
    /\ ticks' = ticks + 1
    /\ BroadcastCall([ClusterId |-> ClusterID, Regions |-> <<>>, StartIndex |-> GetNextIndex(history)])
    /\ UNCHANGED <<history, streams, chan, produced, quit, nreq>>
    /\ UNCHANGED <<requests, startIndex, pending, i>>
    /\ UNCHANGED <<sesVars, out, seen, live, dropped, taken, recorded, batched, bootIndex, query, expect, superseded>>

\* a mutant of RunServerQuit: the loop empties the table before it returns
RunServerQuit_ClearsStreams ==
    /\ epc = "select"
    /\ quit' = TRUE
    /\ epc' = "exit"
    /\ streams' = <<>>
    /\ UNCHANGED <<history, rlocked, chan, produced, ticks, nreq>>
    /\ UNCHANGED <<requests, startIndex, pending, i, msg, todo, failed>>
    /\ UNCHANGED <<sesVars, obsVars>>

\* case <-quit, lines 92-94: the quit signal arrives and the select takes it
RunServerQuit ==
    /\ epc = "select"
    /\ quit' = TRUE
    /\ epc' = "exit"
    /\ UNCHANGED <<rsVars, chan, produced, ticks, nreq>>
    /\ UNCHANGED <<requests, startIndex, pending, i, msg, todo, failed>>
    /\ UNCHANGED <<sesVars, obsVars>>

(***************************************************************************)
(* broadcast.                                                              *)
(***************************************************************************)
\* sender.Send(regions) can succeed only while the session of the stream runs:
\* once Sync has returned the RPC is over and Send returns an error
CanDeliver(sender) == spc[sender] # "closed"

\* one iteration of the range loop, lines 185-191: Send on the stream of one
\* name (Go visits the keys of a map in no particular order); ok is whether
\* Send returned nil
BroadcastSend(name, ok) ==
    /\ epc = "send"
    /\ name \in todo
    /\ LET sender == streams[name] IN
        /\ ok => CanDeliver(sender)
        /\ sends' = Append(sends, [name |-> name, stream |-> sender, ok |-> ok])
        /\ IF ok
           THEN /\ out' = [out EXCEPT ![sender] = msg]
                /\ seen' = [seen EXCEPT ![sender] = @ \cup Indices(msg)]
                /\ expect' = [expect EXCEPT ![name] =
                                 [next |-> msg.StartIndex + Len(msg.Regions), count |-> @.count + 1]]
                /\ UNCHANGED <<failed, live>>
           ELSE /\ failed' = Append(failed, name)
                /\ live' = {r \in live : r[2] # sender}
                /\ expect' = [expect EXCEPT ![name] = NoBroadcast]
                /\ UNCHANGED <<out, seen>>
    /\ todo' = todo \ {name}
    /\ UNCHANGED <<rsVars, envVars, epc, requests, startIndex, pending, i, msg>>
    /\ UNCHANGED <<sesVars, dropped, taken, recorded, batched, bootIndex, query, superseded>>

\* a mutant of BroadcastRUnlock: with failed names to remove, broadcast keeps
\* the read lock and goes on to take the write lock
BroadcastRUnlock_Upgrade ==
    /\ epc = "send"
    /\ todo = {}
    /\ IF Len(failed) > 0
       THEN /\ epc' = "remove"
            /\ UNCHANGED <<rlocked, requests, startIndex, pending, i, msg, failed, sends>>
       ELSE /\ rlocked' = FALSE
            /\ BroadcastReturn
    /\ UNCHANGED <<history, streams, envVars, todo>>
    /\ UNCHANGED <<sesVars, out, seen, live, dropped, taken, recorded, batched, bootIndex, query, expect, superseded>>

\* s.RUnlock(), line 192, and the test of failed, line 193
BroadcastRUnlock ==
    /\ epc = "send"
    /\ todo = {}
    /\ rlocked' = FALSE
    /\ IF Len(failed) > 0
       THEN /\ epc' = "remove"
            /\ UNCHANGED <<requests, startIndex, pending, i, msg, failed, sends>>
       ELSE BroadcastReturn
    /\ UNCHANGED <<history, streams, envVars, todo>>
    /\ UNCHANGED <<sesVars, out, seen, live, dropped, taken, recorded, batched, bootIndex, query, expect, superseded>>

\* a mutant of BroadcastRemove: the failed names stay in the table
BroadcastRemove_KeepsFailed ==
    /\ epc = "remove"
    /\ BroadcastReturn
    /\ UNCHANGED <<rsVars, envVars, todo>>
    /\ UNCHANGED <<sesVars, out, seen, live, dropped, taken, recorded, batched, bootIndex, query, expect, superseded>>

\* s.Lock(), which waits until no reader holds the lock, delete every failed
\* name, s.Unlock(), lines 193-200
BroadcastRemove ==
    /\ epc = "remove"
    /\ ~rlocked
    /\ LET gone == Range(failed)
           kept == DOMAIN streams \ gone
       IN /\ streams' = [n \in kept |-> streams[n]]
          /\ dropped' = dropped \cup gone
    /\ BroadcastReturn
    /\ UNCHANGED <<history, rlocked, envVars, todo>>
    /\ UNCHANGED <<sesVars, out, seen, live, taken, recorded, batched, bootIndex, query, expect, superseded>>

(***************************************************************************)
(* Sync, the session of connection s.                                      *)
(***************************************************************************)
\* Sync returns e
Return(s, e) ==
    /\ spc' = [spc EXCEPT ![s] = "closed"]
    /\ err' = [err EXCEPT ![s] = e]

\* a mutant of SyncRecv: the cluster identifier is not compared
SyncRecv_NoValidate(s, cluster, name, start) ==
    /\ spc[s] = "recv"
    /\ nreq < MaxRequests
    /\ nreq' = nreq + 1
    /\ req' = [req EXCEPT ![s] = [cluster |-> cluster, name |-> name, start |-> start, recv |-> "request",
                                  consulted |-> FALSE, inrange |-> FALSE, replied |-> 0, bound |-> FALSE]]
    /\ spc' = [spc EXCEPT ![s] = "history"]
    /\ UNCHANGED err
    /\ UNCHANGED <<rsVars, chan, produced, ticks, quit, engVars, records, obsVars>>

\* stream.Recv() returns a request, lines 126-137: the cluster identifier is
\* compared with the server's
SyncRecv(s, cluster, name, start) ==
    /\ spc[s] = "recv"
    /\ nreq < MaxRequests
    /\ nreq' = nreq + 1
    /\ req' = [req EXCEPT ![s] = [cluster |-> cluster, name |-> name, start |-> start, recv |-> "request",
                                  consulted |-> FALSE, inrange |-> FALSE, replied |-> 0, bound |-> FALSE]]
    /\ IF cluster # ClusterID
       THEN Return(s, "FailedPrecondition")
       ELSE /\ spc' = [spc EXCEPT ![s] = "history"]
            /\ UNCHANGED err
    /\ UNCHANGED <<rsVars, chan, produced, ticks, quit, engVars, records, obsVars>>

\* a mutant of SyncRecvEOF: the session takes its stream out of the table
SyncRecvEOF_Unbinds(s) ==
    /\ spc[s] = "recv"
    /\ req' = [req EXCEPT ![s].recv = "EOF"]
    /\ Return(s, "nil")
    /\ streams' = [n \in {m \in DOMAIN streams : streams[m] # s} |-> streams[n]]
    /\ UNCHANGED <<history, rlocked, chan, produced, ticks, quit, nreq, engVars, records, obsVars>>

\* stream.Recv() returns io.EOF, lines 127-129
SyncRecvEOF(s) ==
    /\ spc[s] = "recv"
    /\ req' = [req EXCEPT ![s].recv = "EOF"]
    /\ Return(s, "nil")
    /\ UNCHANGED <<rsVars, chan, produced, ticks, quit, nreq, engVars, records, obsVars>>

\* a mutant of SyncRecvError: every receive error ends the session cleanly
SyncRecvError_ReturnsNil(s) ==
    /\ spc[s] = "recv"
    /\ req' = [req EXCEPT ![s].recv = "error"]
    /\ Return(s, "nil")
    /\ UNCHANGED <<rsVars, chan, produced, ticks, quit, nreq, engVars, records, obsVars>>

\* stream.Recv() returns another error, lines 130-132
SyncRecvError(s) ==
    /\ spc[s] = "recv"
    /\ req' = [req EXCEPT ![s].recv = "error"]
    /\ Return(s, "transport")
    /\ UNCHANGED <<rsVars, chan, produced, ticks, quit, nreq, engVars, records, obsVars>>

\* a mutant of SyncHistory: a request whose history is gone is refused
SyncHistory_FailsWhenEvicted(s) ==
    /\ spc[s] = "history"
    /\ LET got == RecordsFrom(history, req[s].start) IN
        /\ records' = [records EXCEPT ![s] = got]
        /\ IF Len(got) = 0 /\ GetNextIndex(history) # req[s].start
           THEN Return(s, "FailedPrecondition")
           ELSE /\ spc' = [spc EXCEPT ![s] = IF Len(got) = 0 THEN "bind" ELSE "send"]
                /\ UNCHANGED err
    /\ req' = [req EXCEPT ![s].consulted = TRUE,
                           ![s].inrange = /\ history.startIndex <= req[s].start
                                          /\ req[s].start <= GetNextIndex(history)]
    /\ UNCHANGED <<rsVars, envVars, engVars, obsVars>>

\* syncHistoryRegion up to the decision on the records, lines 148-160
SyncHistory(s) ==
    /\ spc[s] = "history"
    /\ LET got == RecordsFrom(history, req[s].start) IN
        /\ records' = [records EXCEPT ![s] = got]
        /\ spc' = [spc EXCEPT ![s] = IF Len(got) = 0 THEN "bind" ELSE "send"]
    /\ req' = [req EXCEPT ![s].consulted = TRUE,
                           ![s].inrange = /\ history.startIndex <= req[s].start
                                          /\ req[s].start <= GetNextIndex(history)]
    /\ UNCHANGED <<rsVars, envVars, engVars, err, obsVars>>

\* a mutant of SyncReplay: the response carries the buffer's oldest index
\* instead of the request's
SyncReplay_BufferStart(s, ok) ==
    /\ spc[s] = "send"
    /\ IF ok
       THEN /\ LET resp == [ClusterId |-> ClusterID, Regions |-> Metas(records[s]),
                             StartIndex |-> history.startIndex]
               IN /\ out' = [out EXCEPT ![s] = resp]
                  /\ seen' = [seen EXCEPT ![s] = @ \cup Indices(resp)]
            /\ req' = [req EXCEPT ![s].replied = @ + 1]
            /\ spc' = [spc EXCEPT ![s] = "bind"]
            /\ UNCHANGED err
       ELSE /\ Return(s, "send")
            /\ UNCHANGED <<out, seen, req>>
    /\ records' = [records EXCEPT ![s] = <<>>]
    /\ UNCHANGED <<rsVars, chan, produced, ticks, quit, nreq, engVars>>
    /\ UNCHANGED <<sends, live, dropped, taken, recorded, batched, bootIndex, query, expect, superseded>>

\* the replay response of syncHistoryRegion, lines 163-172, and Sync's test
\* of its result, lines 140-142; ok is whether stream.Send returned nil;
\* records goes out of scope
SyncReplay(s, ok) ==
    /\ spc[s] = "send"
    /\ IF ok
       THEN /\ LET resp == [ClusterId |-> ClusterID, Regions |-> Metas(records[s]),
                             StartIndex |-> req[s].start]
               IN /\ out' = [out EXCEPT ![s] = resp]
                  /\ seen' = [seen EXCEPT ![s] = @ \cup Indices(resp)]
            /\ req' = [req EXCEPT ![s].replied = @ + 1]
            /\ spc' = [spc EXCEPT ![s] = "bind"]
            /\ UNCHANGED err
       ELSE /\ Return(s, "send")
            /\ UNCHANGED <<out, seen, req>>
    /\ records' = [records EXCEPT ![s] = <<>>]
    /\ UNCHANGED <<rsVars, chan, produced, ticks, quit, nreq, engVars>>
    /\ UNCHANGED <<sends, live, dropped, taken, recorded, batched, bootIndex, query, expect, superseded>>

\* a mutant of BindStream: a name that is already registered keeps its stream
BindStream_FirstWins(s) ==
    /\ spc[s] = "bind"
    /\ ~rlocked
    /\ LET name == req[s].name IN
        /\ streams' = IF name \in DOMAIN streams THEN streams
                       ELSE [n \in DOMAIN streams \cup {name} |->
                                IF n = name THEN s ELSE streams[n]]
        /\ live' = {r \in live : r[1] # name} \cup {<<name, s>>}
        /\ expect' = [expect EXCEPT ![name] = NoBroadcast]
        /\ superseded' = (superseded \ {<<name, s>>}) \cup
                             {<<name, streams[n]>> : n \in {m \in DOMAIN streams : m = name /\ streams[m] # s}}
    /\ dropped' = dropped \ {req[s].name}
    /\ req' = [req EXCEPT ![s].bound = TRUE]
    /\ spc' = [spc EXCEPT ![s] = "recv"]
    /\ UNCHANGED <<history, rlocked, envVars, engVars, records, err>>
    /\ UNCHANGED <<out, seen, sends, taken, recorded, batched, bootIndex, query>>

\* bindStream, lines 176-180, called at line 143: under the write lock
BindStream(s) ==
    /\ spc[s] = "bind"
    /\ ~rlocked
    /\ LET name == req[s].name IN
        /\ streams' = [n \in DOMAIN streams \cup {name} |->
                          IF n = name THEN s ELSE streams[n]]
        /\ live' = {r \in live : r[1] # name} \cup {<<name, s>>}
        /\ expect' = [expect EXCEPT ![name] = NoBroadcast]
        /\ superseded' = (superseded \ {<<name, s>>}) \cup
                             {<<name, streams[n]>> : n \in {m \in DOMAIN streams : m = name /\ streams[m] # s}}
    /\ dropped' = dropped \ {req[s].name}
    /\ req' = [req EXCEPT ![s].bound = TRUE]
    /\ spc' = [spc EXCEPT ![s] = "recv"]
    /\ UNCHANGED <<history, rlocked, envVars, engVars, records, err>>
    /\ UNCHANGED <<out, seen, sends, taken, recorded, batched, bootIndex, query>>

(***************************************************************************)
(* The syncer: the engine, the sessions and their environment.             *)
(***************************************************************************)
Engine ==
    \/ RunServerFirst
    \/ RunServerDrain
    \/ RunServerBatch
    \/ RunServerAlive
    \/ RunServerQuit
    \/ \E name \in Names, ok \in BOOLEAN : BroadcastSend(name, ok)
    \/ BroadcastRUnlock
    \/ BroadcastRemove

Session(s) ==
    \/ \E cluster \in ClusterIDs, name \in Names, start \in 0..MaxStart :
          SyncRecv(s, cluster, name, start)
    \/ SyncRecvEOF(s)
    \/ SyncRecvError(s)
    \/ SyncHistory(s)
    \/ \E ok \in BOOLEAN : SyncReplay(s, ok)
    \/ BindStream(s)

Next ==
    \/ Notify
    \/ Engine
    \/ \E s \in Sessions : Session(s)

Spec == Init /\ [][Next]_vars

(***************************************************************************)
(* The syncer under a fair scheduler, with every Send returning: a         *)
(* goroutine that can run does run, so broadcast goes on through its       *)
(* range loop, its RUnlock and its removal, and a bindStream waiting in    *)
(* Lock gets the lock once no broadcast holds it (sync.RWMutex keeps new   *)
(* readers out while a writer waits). The engine makes a bounded number of *)
(* broadcast calls here, so weak fairness on bindStream is enough.         *)
(***************************************************************************)
Fairness ==
    /\ WF_vars(\E name \in Names, ok \in BOOLEAN : BroadcastSend(name, ok))
    /\ WF_vars(BroadcastRUnlock)
    /\ WF_vars(BroadcastRemove)
    /\ \A s \in Sessions : WF_vars(BindStream(s))

\* the sessions of followers that stay connected: requests of the right
\* cluster, and no end of the stream
SessionLock(s) ==
    \/ \E name \in Names, start \in 0..MaxStart : SyncRecv(s, ClusterID, name, start)
    \/ SyncHistory(s)
    \/ \E ok \in BOOLEAN : SyncReplay(s, ok)
    \/ BindStream(s)

NextLock ==
    \/ Notify
    \/ Engine
    \/ \E s \in Sessions : SessionLock(s)

SpecFair == Init /\ [][NextLock]_vars /\ Fairness

(***************************************************************************)
(* The engine with a follower whose Send does not return.                  *)
(***************************************************************************)
\* sender.Send(regions), line 186, blocks: broadcast stays in the range loop
\* with the read lock held
BroadcastSendBlocks(name) ==
    /\ epc = "send"
    /\ name \in todo
    /\ CanDeliver(streams[name])
    /\ epc' = "stuck"
    /\ UNCHANGED <<rsVars, envVars, requests, startIndex, pending, i, msg, todo, failed>>
    /\ UNCHANGED <<sesVars, obsVars>>

NextSlow ==
    \/ Next
    \/ \E name \in Names : BroadcastSendBlocks(name)

SpecSlow == Init /\ [][NextSlow]_vars

(***************************************************************************)
(* The engine alone, started with a burst queued on regionNotifier and no  *)
(* follower connected.                                                     *)
(***************************************************************************)
InitBatch == \E queued \in 1..MaxQueued : InitWith(defaultHistoryBufferSize, 0, queued)

NextBatch ==
    \/ RunServerFirst
    \/ RunServerDrain
    \/ RunServerBatch
    \/ RunServerAlive
    \/ RunServerQuit
    \/ BroadcastRUnlock

SpecBatch == InitBatch /\ [][NextBatch]_vars

(***************************************************************************)
(* The history buffer alone: any capacity 1..MaxCapacity, any persisted    *)
(* watermark, any sequence of Record and RecordsFrom calls.                *)
(***************************************************************************)
HistoryRecord(id) ==
    /\ Len(recorded) < MaxRecords
    /\ history' = Record(history, RegionInfo(id))
    /\ recorded' = Append(recorded, RegionInfo(id))
    /\ query' = None
    /\ UNCHANGED <<streams, rlocked, envVars, engVars, sesVars>>
    /\ UNCHANGED <<out, seen, sends, live, dropped, taken, batched, bootIndex, expect, superseded>>

HistoryRecordsFrom(index) ==
    /\ query' = [index |-> index, result |-> RecordsFrom(history, index),
                 next |-> GetNextIndex(history)]
    /\ UNCHANGED <<rsVars, envVars, engVars, sesVars>>
    /\ UNCHANGED <<out, seen, sends, live, dropped, taken, recorded, batched, bootIndex, expect, superseded>>

InitHistory ==
    \E size \in 1..MaxCapacity, w \in 0..MaxWatermark : InitWith(size, w, 0)

NextHistory ==
    \/ \E id \in 1..NumRegions : HistoryRecord(id)
    \/ \E index \in 0..MaxQuery : HistoryRecordsFrom(index)

SpecHistory == InitHistory /\ [][NextHistory]_vars

(***************************************************************************)
(* The history buffer across restarts of the server: NewRegionSyncer       *)
(* builds a new buffer over the same storage.                              *)
(***************************************************************************)
\* a mutant of HistoryRestart: the new buffer ignores the storage
HistoryRestart_FromZero ==
    /\ history' = newHistoryBuffer(history.size, 0)
    /\ query' = None
    /\ UNCHANGED <<streams, rlocked, envVars, engVars, sesVars>>
    /\ UNCHANGED <<out, seen, sends, live, dropped, taken, recorded, batched, bootIndex, expect, superseded>>

\* the server stops and NewRegionSyncer, lines 76-83, runs again: a new
\* history buffer of the same capacity over the region storage, which
\* outlives the restart
HistoryRestart ==
    /\ history' = newHistoryBuffer(history.size, history.kv)
    /\ query' = None
    /\ UNCHANGED <<streams, rlocked, envVars, engVars, sesVars>>
    /\ UNCHANGED <<out, seen, sends, live, dropped, taken, recorded, batched, bootIndex, expect, superseded>>

NextRestart ==
    \/ NextHistory
    \/ HistoryRestart

SpecRestart == InitHistory /\ [][NextRestart]_vars

(***************************************************************************)
(* Properties.                                                             *)
(***************************************************************************)
\* the names and the entries of the Send calls of the current broadcast call
SentNames == {sends[k].name : k \in 1..Len(sends)}

SentTo(name, stream) == \E k \in 1..Len(sends) : sends[k].name = name /\ sends[k].stream = stream

\* C1: a stream handle registered by bindStream is sent every message of every
\* later broadcast until one of its own sends fails or a later bindStream for
\* the same name replaces it, in every interleaving of broadcast and
\* bindStream: a registration that has neither failed nor been replaced is in
\* the follower table, and inside a broadcast call it has been sent the
\* message or is still to be visited.
C1_RegisteredReceivesAll ==
    \A r \in live :
        /\ r[1] \in DOMAIN streams
        /\ streams[r[1]] = r[2]
        /\ epc = "send" => (r[1] \in todo \/ SentTo(r[1], r[2]))

\* C2: every batch message RunServer broadcasts holds at most
\* maxSyncRegionBatchSize (100) records; with 150 notifications queued at
\* once the first batch holds 100 records and 50 stay queued for a later
\* cycle.
C2_BatchWithinCap ==
    (epc = "send" /\ Len(msg.Regions) > 0) =>
        /\ Len(msg.Regions) <= maxSyncRegionBatchSize
        /\ (produced = 150 /\ batched = msg.Regions) =>
               (Len(msg.Regions) = 100 /\ Len(chan) = 50)

\* C3, the state part: inside a broadcast call every registered name is
\* visited at most once, on the stream the table holds for it, failed holds
\* exactly the names whose Send returned an error, and a name removed after a
\* failed send and not bound again is neither in the table nor sent to.
C3_Sends ==
    /\ epc = "send" =>
        /\ SentNames \cap todo = {}
        /\ SentNames \cup todo = DOMAIN streams
        /\ Cardinality(SentNames) = Len(sends)
        /\ \A k \in 1..Len(sends) : sends[k].stream = streams[sends[k].name]
    /\ epc \in {"send", "remove"} =>
        /\ Range(failed) = {sends[k].name : k \in {j \in 1..Len(sends) : ~sends[j].ok}}
        /\ SentNames \cap dropped = {}
    /\ dropped \cap DOMAIN streams = {}

\* C3, the step part: when a broadcast call returns, every name whose send
\* failed is absent from the table, every name whose send succeeded is still
\* present, and the engine is back at its select.
C3_Return ==
    (epc \in {"send", "remove"} /\ epc' \notin {"send", "remove"}) =>
        /\ epc' = "select"
        /\ \A k \in 1..Len(sends) :
              IF sends[k].ok
              THEN sends[k].name \in DOMAIN streams'
              ELSE sends[k].name \notin DOMAIN streams'

\* C3: one broadcast call attempts exactly one send to each registered
\* follower; a follower whose send failed is absent from the table when the
\* call returns and is not sent to by the next broadcast, a follower whose
\* send succeeded is still present, the failed send is not retried, and the
\* engine loop keeps running.
C3_FailedFollowerRemoved == []C3_Sends /\ [][C3_Return]_vars

\* C3 witness: a broadcast to "a" and "b" in which the send to "a" failed and
\* the send to "b" succeeded, about to remove the failed name.
C3_Witness ==
    /\ epc = "remove"
    /\ \E j, k \in 1..Len(sends) :
          /\ sends[j].name = "a" /\ ~sends[j].ok
          /\ sends[k].name = "b" /\ sends[k].ok

\* C4, the state part: a session whose request carries another cluster
\* identifier has returned FailedPrecondition, without consulting
\* RecordsFrom, without sending a response and without calling bindStream
\* for that request.
C4_Closed ==
    \A s \in Sessions :
        req[s].cluster # ClusterID =>
            /\ spc[s] = "closed"
            /\ err[s] = "FailedPrecondition"
            /\ ~req[s].consulted
            /\ req[s].replied = 0
            /\ ~req[s].bound

\* C4, the step part: receiving such a request changes neither the follower
\* table, nor the history buffer, nor what any stream was sent.
C4_Frame ==
    (\E s \in Sessions : req'[s] # req[s] /\ req'[s].cluster # ClusterID) =>
        /\ streams' = streams
        /\ history' = history
        /\ out' = out
        /\ seen' = seen

\* C4: a SyncRequest with a mismatched cluster identifier ends Sync with
\* FailedPrecondition for every requested StartIndex: no SyncResponse is
\* sent, RecordsFrom is not consulted, bindStream is not called, and the
\* follower table and the history buffer are unchanged.
C4_ClusterMismatch == []C4_Closed /\ [][C4_Frame]_vars

\* C4 witness: a session closed on a mismatched request that asked for a
\* StartIndex that has records, while another stream is registered.
C4_Witness ==
    \E s \in Sessions :
        /\ req[s].cluster # ClusterID
        /\ spc[s] = "closed"
        /\ RecordsFrom(history, req[s].start) # <<>>
        /\ DOMAIN streams # {}

\* the record that was assigned history index idx
Assigned(idx) == recorded[idx - bootIndex + 1]

\* C5: RecordsFrom(idx) with startIndex <= idx < nextIndex returns exactly
\* nextIndex - idx entries in ascending index order, position p holding the
\* unmodified record that was assigned index idx + p; with idx < startIndex
\* or idx >= nextIndex it returns the empty sequence. With capacity 3,
\* watermark 0 and five records: nextIndex is 5, RecordsFrom(2) is the third
\* to fifth record and RecordsFrom(0) is empty.
C5_RecordsFrom ==
    query # None =>
        LET idx == query.index
            res == query.result
        IN /\ (history.startIndex <= idx /\ idx < history.nextIndex) =>
                 /\ Len(res) = history.nextIndex - idx
                 /\ \A p \in 0..(Len(res) - 1) : res[p + 1] = Assigned(idx + p)
           /\ (idx < history.startIndex \/ idx >= history.nextIndex) => res = <<>>
           /\ (history.size = 3 /\ bootIndex = 0 /\ Len(recorded) = 5) =>
                 /\ query.next = 5
                 /\ idx = 2 => res = <<recorded[3], recorded[4], recorded[5]>>
                 /\ idx = 0 => res = <<>>

\* C5 witness: capacity 3, watermark 0, five records with distinct third and
\* fourth record, and RecordsFrom(2) returned three entries.
C5_Witness ==
    /\ query # None
    /\ history.size = 3
    /\ bootIndex = 0
    /\ Len(recorded) = 5
    /\ recorded[3] # recorded[4]
    /\ query.index = 2
    /\ Len(query.result) = 3

\* C6, the state part: the retained entries are those with the indices
\* startIndex .. nextIndex - 1, each the record assigned that index; at most
\* C are retained, and exactly C once more than C have been recorded.
C6_Span ==
    /\ Len(history.records) = history.nextIndex - history.startIndex
    /\ history.nextIndex = bootIndex + Len(recorded)
    /\ \A p \in 1..Len(history.records) :
          history.records[p] = Assigned(history.startIndex + p - 1)
    /\ history.nextIndex - history.startIndex <= history.size
    /\ Len(recorded) > history.size =>
          history.nextIndex - history.startIndex = history.size

\* C6, the step part: nextIndex and startIndex never decrease, a query
\* changes nothing, and a record on a full buffer evicts exactly one entry.
C6_Step ==
    /\ history'.nextIndex >= history.nextIndex
    /\ history'.startIndex >= history.startIndex
    /\ history'.startIndex <= history.startIndex + 1
    /\ recorded' = recorded => history' = history
    /\ (recorded' # recorded /\ Len(history.records) = history.size) =>
          history'.startIndex = history.startIndex + 1

\* C6: in every reachable state of a history buffer of capacity C the
\* retained entries have exactly the indices startIndex .. nextIndex - 1,
\* nextIndex - startIndex <= C, nextIndex and startIndex never decrease,
\* and once more than C records were recorded nextIndex - startIndex = C.
C6_HistoryInvariant == []C6_Span /\ [][C6_Step]_vars

\* C6 witness: capacity 2 after five records, three of them evicted, with a
\* query made in that state.
C6_Witness ==
    /\ history.size = 2
    /\ Len(recorded) = 5
    /\ history.startIndex = bootIndex + 3
    /\ query # None

\* C7: in every batch message the engine broadcasts, StartIndex is the
\* history index assigned to the first record of the batch, the records are
\* in the order their notifications were taken from the channel, and the
\* record at position p is the one assigned index StartIndex + p.
C7_BatchIndices ==
    (epc \in {"send", "remove", "stuck"} /\ Len(msg.Regions) > 0) =>
        LET n == Len(msg.Regions) IN
        /\ n <= Len(taken)
        /\ msg.Regions = Metas(SubSeq(taken, Len(taken) - n + 1, Len(taken)))
        /\ msg.StartIndex >= bootIndex
        /\ msg.StartIndex + n <= bootIndex + Len(recorded)
        /\ \A p \in 0..(n - 1) : msg.Regions[p + 1] = GetMeta(Assigned(msg.StartIndex + p))
        /\ Metas(RecordsFrom(history, msg.StartIndex)) = msg.Regions

\* C7 witness: a batch of two records is being sent to a registered stream.
C7_Witness ==
    /\ epc = "send"
    /\ Len(msg.Regions) = 2
    /\ DOMAIN streams # {}

\* C8: after the engine has processed N notifications nextIndex is its
\* value at startup plus N: every notification taken from the channel is
\* recorded exactly once and is in exactly one batch, none is dropped or
\* recorded twice, whatever the batching and the timer ticks.
C8_EveryNotificationOnce ==
    /\ taken \o chan = [k \in 1..produced |-> RegionInfo(k)]
    /\ recorded = taken
    /\ GetNextIndex(history) = bootIndex + Len(taken)
    /\ batched \o (IF epc = "drain" THEN requests ELSE <<>>) = Metas(taken)

\* C8 witness: two notifications and a timer tick processed, the engine back
\* at its select with nothing queued.
C8_Witness ==
    /\ epc = "select"
    /\ Len(taken) = 2
    /\ ticks = 1
    /\ chan = <<>>
    /\ batched = <<1, 2>>

\* C9 as claimed: once Sync has returned for a connection the follower table
\* no longer holds that connection's stream handle.
C9_RemovedOnReturn ==
    \A s \in Sessions : spc[s] = "closed" => s \notin Range(streams)

\* C9, amended, as a step: Sync's return leaves the follower table as it is;
\* an entry leaves the table only when broadcast deletes its name after a
\* failed send to that name, or when bindStream for the same name replaces
\* it.
C9_Step ==
    /\ (\E s \in Sessions : spc[s] # "closed" /\ spc'[s] = "closed") => streams' = streams
    /\ \A n \in DOMAIN streams :
          (n \notin DOMAIN streams' \/ streams'[n] # streams[n]) =>
              \/ /\ n \notin DOMAIN streams'
                 /\ epc = "remove"
                 /\ n \in Range(failed)
              \/ /\ n \in DOMAIN streams'
                 /\ spc[streams'[n]] = "bind"
                 /\ req[streams'[n]].name = n

\* C9, amended: a registered stream is not removed when its session
\* terminates: it stays in the table until a broadcast removes its name
\* after a failed send, or a later bindStream for the same name replaces it.
C9_RemovedLazily == [][C9_Step]_vars

\* C9 witness: Sync has returned for a connection whose stream is still in
\* the table.
C9_Witness ==
    \E s \in Sessions : spc[s] = "closed" /\ s \in Range(streams)

\* C10: one slow follower does not stall the others: when the send to one
\* follower does not return, the other registered followers are still sent
\* the message, the engine can still take the next notification, and a
\* session at bindStream can still complete. (The engine never leaves a Send
\* that does not return, so what is not possible then never happens.)
C10_SlowFollowerDoesNotStall ==
    epc = "stuck" =>
        /\ Cardinality(todo) <= 1
        /\ chan # <<>> => ENABLED RunServerFirst
        /\ \A s \in Sessions : spc[s] = "bind" => ENABLED BindStream(s)

\* C11, the state part: the watermark in the storage is the next index after
\* every record, and the k-th record ever made, over all incarnations, got
\* the index bootIndex + k - 1, so no index is assigned twice.
C11_Persisted ==
    /\ history.kv = history.nextIndex
    /\ history.nextIndex = bootIndex + Len(recorded)

\* C11, the step part: a restart (the buffer changes and nothing is recorded)
\* leaves nextIndex as it was, sets startIndex to it, retains no entry and
\* makes RecordsFrom empty for every index.
C11_Restart ==
    (recorded' = recorded /\ history' # history) =>
        /\ history'.nextIndex = history.nextIndex
        /\ history'.startIndex = history'.nextIndex
        /\ history'.records = <<>>
        /\ \A idx \in 0..MaxQuery : RecordsFrom(history', idx) = <<>>

\* C11: the watermark nextIndex is persisted on every record and a restart
\* seeds startIndex = nextIndex = the persisted watermark with no retained
\* entry: over any sequence of records and restarts no index is assigned
\* twice, nextIndex after a restart equals nextIndex before it, and right
\* after a restart RecordsFrom is empty for every index.
C11_RestartKeepsWatermark == []C11_Persisted /\ [][C11_Restart]_vars

\* C11 witness: a buffer of capacity 3 that holds one entry after three
\* records: it was restarted after the second and recorded the third at the
\* index the first incarnation would have used next.
C11_Witness ==
    /\ history.size = 3
    /\ Len(recorded) = 3
    /\ Len(history.records) = 1
    /\ history.startIndex = bootIndex + 2

\* C12, the state part: a session about to send its replay holds a non-empty
\* records slice whose position p is the record that was assigned index
\* StartIndex + p, has sent no response for the request and has not bound
\* it; no request gets more than one response.
C12_Replaying ==
    \A s \in Sessions :
        /\ req[s].replied <= 1
        /\ spc[s] = "send" =>
            /\ req[s].consulted /\ req[s].replied = 0 /\ ~req[s].bound
            /\ Len(records[s]) > 0
            /\ req[s].start >= bootIndex
            /\ req[s].start + Len(records[s]) <= bootIndex + Len(recorded)
            /\ \A p \in 0..(Len(records[s]) - 1) :
                  records[s][p + 1] = Assigned(req[s].start + p)

\* C12, the step part: a non-empty RecordsFrom result takes the session to
\* the replay with exactly that result; the replay, when its Send succeeds,
\* delivers one response with the request's StartIndex and the metas of the
\* records in order, and binds nothing; bindStream runs only from there (or
\* from an empty result), never after a failed Send.
C12_Step ==
    \A s \in Sessions :
        /\ (spc[s] = "history" /\ spc'[s] # "history") =>
               LET got == RecordsFrom(history, req[s].start) IN
               IF Len(got) > 0
               THEN spc'[s] = "send" /\ records'[s] = got
               ELSE spc'[s] = "bind"
        /\ (spc[s] = "send" /\ spc'[s] # "send") =>
            /\ streams' = streams
            /\ ~req'[s].bound
            /\ IF spc'[s] = "bind"
               THEN /\ req'[s].replied = 1
                    /\ out'[s] = [ClusterId |-> ClusterID, Regions |-> Metas(records[s]),
                                   StartIndex |-> req[s].start]
               ELSE /\ spc'[s] = "closed"
                    /\ req'[s].replied = 0
                    /\ out'[s] = out[s]
        /\ (req'[s].bound /\ ~req[s].bound) =>
            /\ spc[s] = "bind"
            /\ streams'[req[s].name] = s

\* C12: a valid request for which RecordsFrom returns records gets exactly
\* one SyncResponse on its connection before the connection is registered:
\* it carries the request's StartIndex and all returned records in ascending
\* index order (position p is index StartIndex + p), and bindStream for the
\* request runs only after that Send succeeded.
C12_ReplayBeforeBind == []C12_Replaying /\ [][C12_Step]_vars

\* C12 witness: a session that replayed two records from the request's index
\* and has bound its stream.
C12_Witness ==
    \E s \in Sessions :
        /\ req[s].replied = 1
        /\ req[s].bound
        /\ req[s].name \in DOMAIN streams
        /\ streams[req[s].name] = s
        /\ out[s].StartIndex = req[s].start
        /\ Len(out[s].Regions) = 2
        /\ seen[s] = {req[s].start, req[s].start + 1}

\* C13, the step part: when RecordsFrom returns nothing, whether the request's
\* StartIndex is the next index or not, syncHistoryRegion sends nothing and
\* returns nil: the session goes on to bindStream, nothing is delivered,
\* Sync has not returned, and neither the table nor the history changes; the
\* bindStream that follows registers the stream and the session awaits the
\* next request.
C13_Step ==
    \A s \in Sessions :
        /\ (spc[s] = "history" /\ spc'[s] # "history" /\
             Len(RecordsFrom(history, req[s].start)) = 0) =>
            /\ spc'[s] = "bind"
            /\ err'[s] = "none"
            /\ records'[s] = <<>>
            /\ req'[s].replied = 0
            /\ UNCHANGED <<out, seen, streams, history, sends>>
        /\ (spc[s] = "bind" /\ spc'[s] # "bind") =>
            /\ spc'[s] = "recv"
            /\ err'[s] = "none"
            /\ req'[s].bound
            /\ streams'[req[s].name] = s
            /\ UNCHANGED <<out, seen>>

\* C13, the state part: a session that goes to bindStream without a replay
\* has not failed, and bindStream waits for nothing but the read lock of a
\* running broadcast.
C13_Proceeds ==
    \A s \in Sessions :
        (spc[s] = "bind" /\ req[s].replied = 0) =>
            /\ err[s] = "none"
            /\ req[s].consulted
            /\ rlocked \/ ENABLED BindStream(s)

\* C13: when a valid request's RecordsFrom result is empty, in both cases
\* (StartIndex equal to the next index, and not equal: evicted or ahead) the
\* session sends no SyncResponse, does not fail, and still registers the
\* stream with bindStream and awaits the next request; the two cases differ
\* in no state change and in nothing sent.
C13_EmptyReplayProceeds == []C13_Proceeds /\ [][C13_Step]_vars

\* C13 witness: two registered sessions that got no replay, one whose
\* StartIndex was the next index and one whose StartIndex was outside the
\* buffer's span.
C13_Witness ==
    \E s1, s2 \in Sessions :
        /\ req[s1].bound /\ req[s1].replied = 0 /\ req[s1].inrange
        /\ req[s2].bound /\ req[s2].replied = 0 /\ ~req[s2].inrange
        /\ spc[s1] = "recv" /\ spc[s2] = "recv"
        /\ out[s1] = None /\ out[s2] = None
        /\ DOMAIN streams = {req[s1].name, req[s2].name}
        /\ streams[req[s1].name] = s1 /\ streams[req[s2].name] = s2

\* C14, the state part: Sync has returned exactly when the session is closed;
\* it returned nil exactly after io.EOF, an error after any other receive
\* error, and after a request only for a cluster mismatch or a failed replay
\* Send, in which case the request was never bound.
C14_Returned ==
    \A s \in Sessions :
        /\ (spc[s] = "closed") <=> (err[s] # "none")
        /\ spc[s] = "closed" =>
            /\ (req[s].recv = "EOF") <=> (err[s] = "nil")
            /\ (req[s].recv = "error") <=> (err[s] = "transport")
            /\ (req[s].recv = "request") <=> (err[s] \in {"FailedPrecondition", "send"})
            /\ req[s].recv = "request" => ~req[s].bound
            /\ err[s] = "send" => (req[s].consulted /\ req[s].replied = 0)

\* C14, the step part: the step in which Sync returns changes neither the
\* table nor the registrations, and a closed session binds nothing later.
C14_Step ==
    \A s \in Sessions :
        /\ (spc[s] # "closed" /\ spc'[s] = "closed") =>
            /\ spc[s] \in {"recv", "send"}
            /\ UNCHANGED <<streams, live>>
        /\ spc[s] = "closed" =>
            /\ spc'[s] = "closed"
            /\ \A n \in DOMAIN streams' :
                  streams'[n] = s => (n \in DOMAIN streams /\ streams[n] = s)

\* C14: a clean end-of-input on Recv closes the session without an error
\* (Sync returns nil); any other receive failure and any failure of the
\* replay Send end the session with an error; in each case bindStream is not
\* called in the failing iteration, so a connection whose replay Send failed
\* is never registered by that request.
C14_SessionEnds == []C14_Returned /\ [][C14_Step]_vars

\* C14 witness: one session ended by io.EOF with nil, the other by a failed
\* replay Send with an error and without a table entry.
C14_Witness ==
    \E s1, s2 \in Sessions :
        /\ spc[s1] = "closed" /\ req[s1].recv = "EOF" /\ err[s1] = "nil"
        /\ spc[s2] = "closed" /\ err[s2] = "send"
        /\ \A n \in DOMAIN streams : streams[n] # s2

\* C15 as stated: the table holds one handle per name, the later bindStream
\* for a name wins, and the superseded handle fails on its next send and is
\* evicted by the failure path of broadcast: a broadcast call that has
\* visited every name has made a failing Send on every superseded handle.
C15_SupersededEvicted ==
    (epc = "send" /\ todo = {}) =>
        \A r \in superseded :
            \E k \in 1..Len(sends) : sends[k].stream = r[2] /\ ~sends[k].ok

\* C15 amended, the state part: a superseded registration is out of the
\* table, and a broadcast call makes no Send for it.
C15_Superseded ==
    \A r \in superseded :
        /\ r[1] \in DOMAIN streams => streams[r[1]] # r[2]
        /\ epc = "send" => ~SentTo(r[1], r[2])

\* C15 amended, the step part: bindStream maps the name to its stream,
\* whatever the name mapped to before, leaves every other name alone and
\* touches neither broadcast's failed list nor any stream.
C15_Bind ==
    \A s \in Sessions :
        (req'[s].bound /\ ~req[s].bound) =>
            /\ streams' = [n \in DOMAIN streams \cup {req[s].name} |->
                              IF n = req[s].name THEN s ELSE streams[n]]
            /\ UNCHANGED <<failed, sends, out, dropped \cup {req[s].name}>>

\* C15 amended: the table holds at most one handle per name; when bindStream
\* is called twice for a name the table maps the name to the handle of the
\* call that took the write lock last; the superseded handle leaves the
\* table by that assignment, so broadcast makes no further Send on it for
\* that name and no failure path is involved.
C15_LaterBindWins == []C15_Superseded /\ [][C15_Bind]_vars

\* C15 witness: a broadcast call that visited every name after a stream had
\* been superseded, and sent to the stream that superseded it.
C15_Witness ==
    /\ epc = "send"
    /\ todo = {}
    /\ \E r \in superseded :
          /\ r[1] \in DOMAIN streams
          /\ \E k \in 1..Len(sends) : sends[k].name = r[1] /\ sends[k].stream # r[2]
          /\ \A k \in 1..Len(sends) : sends[k].stream # r[2]

\* C16, the state part: inside a broadcast call a name that has received a
\* broadcast since it was bound and is still to be visited is about to get
\* the message that starts where its last one ended, and a name already
\* visited with success ends where the message ends; what a name has got
\* never runs ahead of the history.
C16_InOrder ==
    \A n \in Names :
        /\ expect[n].count > 0 => expect[n].next <= GetNextIndex(history)
        /\ (epc = "send" /\ n \in todo /\ expect[n].count > 0) =>
               msg.StartIndex = expect[n].next
        /\ (epc = "send" /\ n \in SentNames /\ expect[n].count > 0) =>
               msg.StartIndex + Len(msg.Regions) = expect[n].next

\* C16, the step part: each broadcast message delivered for a name that has
\* stayed registered since an earlier one carries the StartIndex at which the
\* earlier one ended (its StartIndex plus its number of records, none for a
\* keep-alive), and it is the message the engine is broadcasting.
C16_Step ==
    \A n \in Names :
        (expect'[n].count = expect[n].count + 1) =>
            /\ epc = "send" /\ n \in todo
            /\ out'[streams[n]] = msg
            /\ expect[n].count > 0 => msg.StartIndex = expect[n].next
            /\ expect'[n].next = msg.StartIndex + Len(msg.Regions)

\* C16: broadcasts reach a follower in the engine's processing order: for a
\* follower that stays registered each broadcast message it receives has
\* StartIndex equal to the previous one's StartIndex plus the previous one's
\* number of records, so the indices it sees through broadcasts are
\* ascending and contiguous.
C16_BroadcastsContiguous == []C16_InOrder /\ [][C16_Step]_vars

\* C16 witness: a follower that received three broadcasts in a row, two of
\* them batches of one record and one a keep-alive.
C16_Witness ==
    \E n \in DOMAIN streams :
        /\ expect[n].count = 3
        /\ expect[n].next = bootIndex + 2
        /\ ticks = 1
        /\ seen[streams[n]] = {bootIndex, bootIndex + 1}

\* C17, the step part: taking a tick hands broadcast a message with no
\* Regions and StartIndex equal to the next index, and changes neither the
\* history buffer (entries, startIndex, nextIndex, stored watermark) nor the
\* channel; no step of a broadcast call records or consumes anything.
C17_Tick ==
    /\ ticks' # ticks =>
        /\ epc' = "send"
        /\ msg' = [ClusterId |-> ClusterID, Regions |-> <<>>,
                    StartIndex |-> GetNextIndex(history)]
        /\ UNCHANGED <<history, chan, taken, recorded, batched>>
    /\ epc \in {"send", "remove"} => UNCHANGED <<history, taken, recorded, batched>>

\* C17, the state part: while a keep-alive is broadcast its StartIndex is the
\* next index and its Regions are empty.
C17_KeepAlive ==
    (epc \in {"send", "remove"} /\ requests = <<>>) =>
        /\ msg.Regions = <<>>
        /\ msg.StartIndex = GetNextIndex(history)
        /\ history.kv = GetNextIndex(history)

\* C17: on a timer fire the engine broadcasts a message whose Regions list is
\* empty and whose StartIndex is the next index at that moment; handling the
\* timer records nothing (entries, startIndex, nextIndex and the persisted
\* watermark are unchanged) and consumes no notification.
C17_HeartbeatRecordsNothing == []C17_KeepAlive /\ [][C17_Tick]_vars

\* C17 witness: a keep-alive delivered to a follower after one record was
\* made, while a notification waits in the channel.
C17_Witness ==
    /\ epc = "send"
    /\ requests = <<>>
    /\ Len(recorded) = 1
    /\ msg.StartIndex = bootIndex + 1
    /\ chan # <<>>
    /\ \E k \in 1..Len(sends) : sends[k].ok /\ out[sends[k].stream] = msg

\* C18, the state part: the engine has taken the quit signal exactly when it
\* has left its loop, and it left it outside any broadcast call, holding no
\* lock.
C18_Exited ==
    /\ quit <=> (epc = "exit")
    /\ epc = "exit" => (~rlocked /\ msg = None /\ todo = {} /\ failed = <<>>)

\* C18, the step part: taking the quit signal changes neither the table nor
\* any session or stream; after it the engine stays out of its loop, sends
\* no broadcast, records nothing, takes no notification and no tick, and
\* removes no name from the table.
C18_Step ==
    /\ quit' # quit =>
        /\ epc' = "exit"
        /\ UNCHANGED <<streams, spc, err, out, history, chan, ticks>>
    /\ epc = "exit" =>
        /\ epc' = "exit"
        /\ UNCHANGED <<msg, sends, todo, failed, rlocked>>
        /\ dropped' \subseteq dropped
        /\ UNCHANGED <<history, taken, recorded, batched, ticks>>
        /\ Len(chan') >= Len(chan)
        /\ DOMAIN streams \subseteq DOMAIN streams'

\* C18: once the engine loop has taken the shutdown signal it exits: from
\* then on no broadcast is sent, no record is written and no notification is
\* consumed, even when notifications or ticks are pending; the loop leaves
\* the follower table as it was, closing and removing no registered stream.
C18_ShutdownStopsEngine == []C18_Exited /\ [][C18_Step]_vars

\* C18 witness: the engine has exited with a notification queued, a tick
\* still to come and a running session's stream in the table.
C18_Witness ==
    /\ epc = "exit"
    /\ chan # <<>>
    /\ ticks < MaxTicks
    /\ \E n \in DOMAIN streams : spc[streams[n]] = "recv"

\* C19: no gap between the replay and the live broadcasts: for a registered
\* follower whose request had startIndex <= StartIndex <= nextIndex when the
\* history was consulted and whose sends never failed, the replay together
\* with the broadcasts received since cover every index from StartIndex on;
\* whenever the engine is between two cases of its loop, every index it has
\* recorded from StartIndex on has been delivered on the stream.
C19_NoGap ==
    epc \in {"select", "exit"} =>
        \A s \in Sessions :
            (/\ req[s].bound
             /\ req[s].inrange
             /\ <<req[s].name, s>> \in live
             /\ req[s].name \in DOMAIN streams
             /\ streams[req[s].name] = s) =>
                \A idx \in req[s].start..(GetNextIndex(history) - 1) : idx \in seen[s]

\* C20: the follower-table lock never deadlocks: broadcast gives up its read
\* lock before it takes the write lock and bindStream holds the write lock
\* for one assignment, so with every Send returning and a fair scheduler
\* every broadcast call returns to the engine's select and every bindStream
\* call returns to the session's Recv.
C20_LockNeverDeadlocks ==
    /\ [](epc = "remove" => ~rlocked)
    /\ (epc \in {"send", "remove"}) ~> (epc = "select")
    /\ \A s \in Sessions : (spc[s] = "bind") ~> (spc[s] = "recv")

\* C20 witness: broadcast has released the read lock and is about to take the
\* write lock to remove a failed name while a session waits in bindStream.
C20_Witness ==
    /\ epc = "remove"
    /\ failed # <<>>
    /\ ~rlocked
    /\ \E s \in Sessions : spc[s] = "bind"

====
